---- MODULE Spec2Model ----
(***************************************************************************)
(* A model of the resumable batch tagger: the ProgressTracker of           *)
(* progress_tracker.py (the spec's ProgressStore), the pipelined loop of   *)
(* racing_tagger.py main() (the spec's PipelinedProcessor), and the        *)
(* SequenceDetector and SharpnessScorer of sequence_stacking.py.           *)
(*                                                                         *)
(* Six specifications share the variables:                                 *)
(*   SpecStore  a client calling the ProgressTracker API in any order,     *)
(*              with file changes, write failures and process kills;       *)
(*   Spec       main(): startup, resume filter, the depth-1 pipeline loop, *)
(*              with process kills and restarts on the same job directory; *)
(*   SpecSeq    detect_sequences on an image list, then score_sequence on  *)
(*              the sequences it returns;                                  *)
(*   SpecPair   two processes, each with its own ProgressTracker, on one   *)
(*              state file.                                                *)
(*   SpecRun    main() left to run without kills, each step of the loop    *)
(*              weakly fair;                                               *)
(*   SpecWrite  the sequence pass on a four-image list, ending with        *)
(*              write_sequence_metadata.                                   *)
(***************************************************************************)
EXTENDS Integers, Sequences, FiniteSets, TLC

VARIABLES
    files,      \* the image files on disk: path -> stat (exists, size, mtime)
    disk,       \* the content of .racing_tagger_progress.json
    data,       \* ProgressTracker.data of the running process
    now,        \* the wall clock read by datetime.now()
    pc,         \* where the running process is
    call,       \* the last ProgressTracker call and what it returned
    args,       \* main(): the command line of the running process
    images,     \* main(): the item list being processed
    idx,        \* main(): the loop index i (1-based)
    next_encoded,     \* main(): payload handed to the next iteration
    current_encoded,  \* main(): payload of the current item
    next_future,      \* main(): the background encode task
    result,     \* main(): result of the current item
    results,    \* main(): the result list
    counts,     \* main(): processed / failed counters of the run
    ok_items,   \* the items whose inference and parsing succeed
    log,        \* history: the events of the running process, in order
    runs,       \* history: the processes started on this job directory so far
    seq_images,         \* detect_sequences: the image list it is given
    exif,               \* the capture time exiftool reads from each image
    threshold_seconds,  \* detect_sequences: the maximum gap inside a sequence
    sequences,          \* the Sequence objects detected (and scored)
    stage,              \* where the sequence pass is
    exiftool,           \* how the exiftool run of read_timestamps_batch ends
    peer        \* ProgressTracker.data of a second process on the same file

vars == <<files, disk, data, now, pc, call, args, images, idx, next_encoded,
          current_encoded, next_future, result, results, counts, ok_items, log, runs,
          seq_images, exif, threshold_seconds, sequences, stage, exiftool, peer>>

storeVars == <<disk, data, now, call>>
mainVars == <<args, images, idx, next_encoded, current_encoded, next_future,
              result, results, counts, ok_items, log, runs>>
seqVars == <<seq_images, exif, threshold_seconds, sequences, stage, exiftool>>

---------------------------------------------------------------------------
(* Bounds *)

\* SpecStore: the number of clock-advancing steps (mutating calls, file changes)
MaxTime == 3
\* Spec: the number of times main() is started again on the job directory,
\* after a kill or after it ended
MaxRestarts == 1
\* SpecPair: the number of mark_processed / mark_failed calls the two processes
\* make between them
MaxWrites == 2

---------------------------------------------------------------------------
(* Items: paths <<directory, filename>>.  a/x and b/x share a filename.    *)

\* find_images returns the paths sorted by str(path)
AllPaths == << <<"a", "x">>, <<"a", "y">> , <<"b", "x">> >>
Paths == {AllPaths[n] : n \in 1..Len(AllPaths)}

Missing == [exists |-> FALSE, size |-> 0, mtime |-> 0]
Stat(s, m) == [exists |-> TRUE, size |-> s, mtime |-> m]
\* the stats a file is given in the model
FileStats == {Stat(1, 11), Stat(11, 1), Missing}

---------------------------------------------------------------------------
(* Small helpers for dicts (functions with a finite domain) *)

EmptyDict == [k \in {} |-> 0]
DictSet(d, k, v) == [x \in DOMAIN d \cup {k} |-> IF x = k THEN v ELSE d[x]]
DictDel(d, k) == [x \in DOMAIN d \ {k} |-> d[x]]

---------------------------------------------------------------------------
(* ProgressTracker: pure parts *)

\* str(int) for the values of the model, as a sequence of characters
Digit(d) == CASE d = 0 -> "0" [] d = 1 -> "1" [] d = 2 -> "2" [] d = 3 -> "3"
              [] d = 4 -> "4" [] d = 5 -> "5" [] d = 6 -> "6" [] d = 7 -> "7"
              [] d = 8 -> "8" [] d = 9 -> "9"

RECURSIVE IntStr(_)
IntStr(n) == IF n < 10 THEN <<Digit(n)>> ELSE IntStr(n \div 10) \o <<Digit(n % 10)>>

\* str(float) of a whole number of seconds: "11.0"
FloatStr(n) == IntStr(n) \o <<".", "0">>

\* str(path)
PathStr(p) == <<p[1], "/", p[2]>>

\* image_path.name
get_file_key_full(image_path) ==
    CASE image_path = <<"a", "x">> -> "a/x"
      [] image_path = <<"a", "y">> -> "a/y"
      [] image_path = <<"b", "x">> -> "b/x"
      [] image_path = <<"b", "w">> -> "b/w"
      [] OTHER -> "b/z"
get_file_key(image_path) == image_path[2]

get_file_signature_nosep(fs, image_path) ==
    IF fs[image_path].exists
    THEN IntStr(fs[image_path].size) \o FloatStr(fs[image_path].mtime)
    ELSE <<>>

\* f"{stat.st_size}:{stat.st_mtime}", "" on OSError
get_file_signature(fs, image_path) ==
    IF fs[image_path].exists
    THEN IntStr(fs[image_path].size) \o <<":">> \o FloatStr(fs[image_path].mtime)
    ELSE <<>>

\* the dict _load and reset build; 'updated' is absent until the first _save.
\* shape tells a dict with the aggregate's keys from other JSON values.
FreshData(t) ==
    [shape |-> "aggregate", version |-> 1, created |-> t, updated |-> <<>>,
     processed |-> EmptyDict, failed |-> EmptyDict,
     stats |-> [total_processed |-> 0, total_failed |-> 0, total_time |-> 0]]

is_processed(d, fs, image_path, check_signature) ==
    LET key == get_file_key(image_path) IN
    IF key \notin DOMAIN d.processed THEN FALSE
    ELSE IF check_signature
              /\ d.processed[key].signature # get_file_signature(fs, image_path)
         THEN FALSE
         ELSE TRUE

\* mark_processed up to, not including, _save.  at_mark is a history field: the
\* stat the signature was taken from (the JSON record holds no such field).
mark_processed_uncounted(d, fs, t, image_path, keywords, inference_time, metadata) ==
    LET key == get_file_key(image_path)
        entry == [path |-> PathStr(image_path),
                  signature |-> get_file_signature(fs, image_path),
                  processed_at |-> t,
                  keywords |-> keywords,
                  inference_time |-> inference_time,
                  metadata |-> metadata,
                  at_mark |-> fs[image_path]]
        d1 == [d EXCEPT !.processed = DictSet(@, key, entry),
                        !.stats.total_processed = @ + 1,
                        !.stats.total_time = @ + inference_time]
    IN  [d1 EXCEPT !.failed = DictDel(@, key), !.stats.total_failed = @ - 1]
mark_processed(d, fs, t, image_path, keywords, inference_time, metadata) ==
    LET key == get_file_key(image_path)
        entry == [path |-> PathStr(image_path),
                  signature |-> get_file_signature(fs, image_path),
                  processed_at |-> t,
                  keywords |-> keywords,
                  inference_time |-> inference_time,
                  metadata |-> metadata,
                  at_mark |-> fs[image_path]]
        d1 == [d EXCEPT !.processed = DictSet(@, key, entry),
                        !.stats.total_processed = @ + 1,
                        !.stats.total_time = @ + inference_time]
    IN  IF key \in DOMAIN d1.failed
        THEN [d1 EXCEPT !.failed = DictDel(@, key), !.stats.total_failed = @ - 1]
        ELSE d1

\* mark_failed up to, not including, _save
mark_failed_once(d, t, image_path, error) ==
    [d EXCEPT !.failed = DictSet(@, get_file_key(image_path),
                                 [path |-> PathStr(image_path), failed_at |-> t,
                                  error |-> error, attempts |-> 1]),
              !.stats.total_failed = @ + 1]
mark_failed(d, t, image_path, error) ==
    LET key == get_file_key(image_path)
        prev == IF key \in DOMAIN d.failed THEN d.failed[key].attempts ELSE 0
        entry == [path |-> PathStr(image_path), failed_at |-> t,
                  error |-> error, attempts |-> prev + 1]
    IN  [d EXCEPT !.failed = DictSet(@, key, entry), !.stats.total_failed = @ + 1]

\* get_stats
get_stats(d) ==
    [total_processed |-> d.stats.total_processed,
     total_failed |-> d.stats.total_failed,
     total_time |-> d.stats.total_time,
     processed_count |-> Cardinality(DOMAIN d.processed),
     failed_count |-> Cardinality(DOMAIN d.failed)]

---------------------------------------------------------------------------
(* ProgressTracker: the state file *)

\* What open() and json.load() make of the state file:
\*   missing     exists() is false
\*   unreadable  open() raises IOError (permissions, a directory)
\*   garbled     text that is no JSON document: empty, truncated, partial
\*   binary      bytes that are no UTF-8 text (UnicodeDecodeError)
\*   json        a JSON document; doc.shape tells a list, an object without
\*               the aggregate's keys, and the aggregate
NoData == [FreshData(0) EXCEPT !.shape = "none"]
JsonList == [FreshData(0) EXCEPT !.shape = "list"]
JsonObject == [FreshData(0) EXCEPT !.shape = "object"]
FileOf(kind) == [kind |-> kind, doc |-> NoData]
CorruptFiles == {FileOf("unreadable"), FileOf("garbled"), FileOf("binary"),
                 [kind |-> "json", doc |-> JsonList],
                 [kind |-> "json", doc |-> JsonObject]}

\* json.dump(self.data, f, indent=2, default=str) into a file opened with 'w'
json_dump(d) == [kind |-> "json", doc |-> d]

\* _load: the dict the constructor keeps, or the exception that leaves it.
\* IOError and JSONDecodeError are caught; json.load's UnicodeDecodeError and
\* the AttributeError of data.get on a list are not.
load(dk, t) ==
    CASE dk.kind = "missing" -> [raised |-> FALSE, data |-> FreshData(t)]
      [] dk.kind \in {"unreadable", "garbled"} -> [raised |-> FALSE, data |-> FreshData(t)]
      [] dk.kind = "binary" -> [raised |-> TRUE, data |-> NoData]
      [] dk.kind = "json" /\ dk.doc.shape = "list" -> [raised |-> TRUE, data |-> NoData]
      [] OTHER -> [raised |-> FALSE, data |-> dk.doc]

\* How a _save can end:
\*   ok          the file holds the new document
\*   open_fails  mkdir or open raises IOError: logged, the file is untouched
\*   write_fails open('w') truncated the file, then the write raises IOError
\*               (disk full): logged, _save returns
\*   killed      the process is killed after open('w') truncated the file and
\*               before the document is written out
SaveOutcomes == {"ok", "open_fails", "write_fails", "killed"}

\* _save
save_merging(d, dk, t, io) ==
    LET d1 == [d EXCEPT !.updated = <<t>>]
        Merge(old, new) == [k \in DOMAIN old \cup DOMAIN new |->
                               IF k \in DOMAIN new THEN new[k] ELSE old[k]]
    IN [data |-> d1,
        disk |-> CASE io = "ok" /\ dk.kind = "json" /\ dk.doc.shape = "aggregate" ->
                        json_dump([d1 EXCEPT !.processed = Merge(dk.doc.processed, @),
                                             !.failed = Merge(dk.doc.failed, @)])
                   [] io = "ok" -> json_dump(d1)
                   [] io = "open_fails" -> dk
                   [] OTHER -> FileOf("garbled")]
save(d, dk, t, io) ==
    LET d1 == [d EXCEPT !.updated = <<t>>] IN
    [data |-> d1,
     disk |-> CASE io = "ok" -> json_dump(d1)
                [] io = "open_fails" -> dk
                [] OTHER -> FileOf("garbled")]

\* reset
reset(t) == FreshData(t)

\* The aggregate without its timestamps
StripEntry(e) == [path |-> e.path, signature |-> e.signature, keywords |-> e.keywords,
                  inference_time |-> e.inference_time, metadata |-> e.metadata]
StripFailed(e) == [path |-> e.path, error |-> e.error, attempts |-> e.attempts]
Strip(d) == [shape |-> d.shape, version |-> d.version,
             processed |-> [k \in DOMAIN d.processed |-> StripEntry(d.processed[k])],
             failed |-> [k \in DOMAIN d.failed |-> StripFailed(d.failed[k])],
             stats |-> d.stats]

---------------------------------------------------------------------------
(* sequence_stacking.py: capture times, sequence ids, detection, scoring   *)

\* datetime: its fields; the model's capture times are all in December 2024
datetime(d, h, m, s, us) ==
    [year |-> 2024, month |-> 12, day |-> d, hour |-> h, minute |-> m, second |-> s,
     microsecond |-> us]
\* no DateTimeOriginal in the file (or one that does not parse)
NoExif == [year |-> 0, month |-> 0, day |-> 0, hour |-> 0, minute |-> 0, second |-> 0,
           microsecond |-> 0]

\* microseconds in a second (SubSecTimeOriginal is normalised to 6 digits)
MicrosPerSecond == 1000000

\* the capture times of the model: two bursts within one second, half a second
\* apart, and two frames around midnight, half a second apart
Instants ==
    {datetime(22, 14, 35, 26, 0), datetime(22, 14, 35, 26, 100000),
     datetime(22, 14, 35, 26, 600000), datetime(22, 14, 35, 26, 700000),
     datetime(22, 23, 59, 59, 900000), datetime(23, 0, 0, 0, 400000)}

\* timedelta(seconds=...) values for the threshold: 0.1 s and 0.5 s (the default)
timedelta(s, us) == [seconds |-> s, microseconds |-> us]
Thresholds == {timedelta(0, 100000), timedelta(0, 500000)}

\* datetime comparison: field by field, most significant first
DtKey(dt) == <<dt.year, dt.month, dt.day, dt.hour, dt.minute, dt.second, dt.microsecond>>
RECURSIVE TupleLess(_, _)
TupleLess(a, b) ==
    IF a = <<>> \/ b = <<>> THEN a = <<>> /\ b # <<>>
    ELSE Head(a) < Head(b) \/ (Head(a) = Head(b) /\ TupleLess(Tail(a), Tail(b)))
DtLess(a, b) == TupleLess(DtKey(a), DtKey(b))

\* ts - prev_ts: a timedelta, normalised to 0 <= microseconds < 10^6 as Python
\* does; the days count as seconds (dates of one month differ by their days)
Minus(ts, prev_ts) ==
    LET s == (ts.day - prev_ts.day) * 86400 + (ts.hour - prev_ts.hour) * 3600
               + (ts.minute - prev_ts.minute) * 60 + (ts.second - prev_ts.second)
        us == ts.microsecond - prev_ts.microsecond
    IN IF us < 0 THEN timedelta(s - 1, us + MicrosPerSecond) ELSE timedelta(s, us)

\* delta.total_seconds() <= threshold_seconds
WithinThreshold(delta, threshold) ==
    \/ delta.seconds < threshold.seconds
    \/ delta.seconds = threshold.seconds /\ delta.microseconds <= threshold.microseconds

\* zero-padded decimal fields of strftime
Pad2(n) == <<Digit(n \div 10), Digit(n % 10)>>
Pad4(n) == Pad2(n \div 100) \o Pad2(n % 100)

\* generate_sequence_id: f"SEQ_{ts.strftime('%Y-%m-%d_%H-%M-%S')}"
generate_sequence_id(first_frame_timestamp) ==
    LET t == first_frame_timestamp IN
    <<"S", "E", "Q", "_">> \o Pad4(t.year) \o <<"-">> \o Pad2(t.month) \o <<"-">>
        \o Pad2(t.day) \o <<"_">> \o Pad2(t.hour) \o <<"-">> \o Pad2(t.minute)
        \o <<"-">> \o Pad2(t.second)

\* the code point of a character of a sequence id
Ord(c) ==
    CASE c = "-" -> 45
      [] c = "0" -> 48 [] c = "1" -> 49 [] c = "2" -> 50 [] c = "3" -> 51
      [] c = "4" -> 52 [] c = "5" -> 53 [] c = "6" -> 54 [] c = "7" -> 55
      [] c = "8" -> 56 [] c = "9" -> 57
      [] c = "E" -> 69 [] c = "Q" -> 81 [] c = "S" -> 83 [] c = "_" -> 95

\* a < b for two strings, as sorting plain text compares them
RECURSIVE StrLess(_, _)
StrLess(a, b) ==
    IF a = <<>> \/ b = <<>> THEN a = <<>> /\ b # <<>>
    ELSE Ord(Head(a)) < Ord(Head(b))
         \/ (Head(a) = Head(b) /\ StrLess(Tail(a), Tail(b)))

\* the images of the sequence pass; a/x and b/x share a filename
Shots == {<<"a", "x">>, <<"a", "y">>, <<"b", "w">>, <<"b", "x">>, <<"b", "z">>}

\* timestamps[img] = dt on an insertion-ordered dict of (img, ts) pairs
DictPut(pairs, img, dt) ==
    IF \E n \in 1..Len(pairs) : pairs[n].img = img
    THEN [n \in 1..Len(pairs) |->
             IF pairs[n].img = img THEN [img |-> img, ts |-> dt] ELSE pairs[n]]
    ELSE Append(pairs, [img |-> img, ts |-> dt])

\* lines 133-136: the first image of the input list whose name is the row's
\* name, or whose path is the row's SourceFile
MatchRow(imgs, source_file) ==
    LET hits == {n \in 1..Len(imgs) :
                    get_file_key(imgs[n]) = get_file_key(source_file) \/ imgs[n] = source_file}
    IN IF hits = {} THEN 0 ELSE CHOOSE n \in hits : \A m \in hits : n <= m

\* read_timestamps_batch: exiftool prints one CSV row per image, in the order
\* of the command line; rows without a date are skipped, the others are
\* stored under the image MatchRow finds
RECURSIVE ReadRows(_, _, _, _)
ReadRows(imgs, ex, n, timestamps) ==
    IF n > Len(imgs) THEN timestamps
    ELSE LET source_file == imgs[n]
             hit == MatchRow(imgs, source_file)
         IN ReadRows(imgs, ex, n + 1,
                     IF ex[source_file] = NoExif \/ hit = 0 THEN timestamps
                     ELSE DictPut(timestamps, imgs[hit], ex[source_file]))

\* How the exiftool run can end:
\*   ok       exiftool printed its CSV rows
\*   fails    subprocess.run raises (TimeoutExpired after 120 s, OSError): the
\*            error is logged and the empty dict is returned
\*   missing  no exiftool was found at import: SequenceDetector() raises
ExiftoolOutcomes == {"ok", "fails", "missing"}

read_timestamps_batch(imgs, ex, tool) ==
    IF imgs = <<>> \/ tool # "ok" THEN <<>> ELSE ReadRows(imgs, ex, 1, <<>>)

\* sorted(pairs, key=lambda x: x[1]): stable, ascending by timestamp
RECURSIVE Insert(_, _)
Insert(sorted, pair) ==
    IF sorted = <<>> THEN <<pair>>
    ELSE IF DtLess(pair.ts, Head(sorted).ts) THEN <<pair>> \o sorted
         ELSE <<Head(sorted)>> \o Insert(Tail(sorted), pair)
RECURSIVE SortedByTs(_)
SortedByTs(pairs) ==
    IF pairs = <<>> THEN <<>>
    ELSE Insert(SortedByTs(SubSeq(pairs, 1, Len(pairs) - 1)), pairs[Len(pairs)])

\* history of write_sequence_metadata on a sequence: whether it was called, with
\* dry_run or not, what it returned, and for each frame it got to the keywords
\* it passed to write_xmp_keywords and whether that write succeeded
NotWritten == [called |-> FALSE, dry_run |-> FALSE, ret |-> FALSE, frames |-> <<>>]

\* _create_sequence
create_sequence(group) ==
    [sequence_id |-> generate_sequence_id(group[1].ts),
     frames |-> [n \in 1..Len(group) |-> group[n].img],
     timestamps |-> [n \in 1..Len(group) |-> group[n].ts],
     sharpness_scores |-> <<>>,
     best_frame_idx |-> 0,
     fallback |-> {},
     scored |-> FALSE,
     writing |-> NotWritten]

\* lines 199-201 and 205-207: a group becomes a Sequence if it has 2+ frames
Close(seqs, current_group) ==
    IF Len(current_group) >= 2 THEN Append(seqs, create_sequence(current_group)) ELSE seqs

\* lines 186-207: the scan over the sorted pairs
RECURSIVE Scan(_, _, _, _)
Scan(sorted_images, threshold, current_group, seqs) ==
    IF sorted_images = <<>> THEN Close(seqs, current_group)
    ELSE LET pair == Head(sorted_images) IN
         IF current_group = <<>>
         THEN Scan(Tail(sorted_images), threshold, <<pair>>, seqs)
         ELSE IF WithinThreshold(Minus(pair.ts, current_group[Len(current_group)].ts),
                                 threshold)
              THEN Scan(Tail(sorted_images), threshold, Append(current_group, pair), seqs)
              ELSE Scan(Tail(sorted_images), threshold, <<pair>>, Close(seqs, current_group))

detect_sequences(imgs, ex, threshold, tool) ==
    IF imgs = <<>> THEN <<>>
    ELSE LET timestamps == read_timestamps_batch(imgs, ex, tool) IN
         IF timestamps = <<>> THEN <<>>
         ELSE Scan(SortedByTs(timestamps), threshold, <<>>, <<>>)

\* what cv2 makes of a frame: it cannot be read or decoded, or the variance of
\* its Laplacian (0 for a flat image)
Unreadable == [readable |-> FALSE, variance |-> 0]
Readable(v) == [readable |-> TRUE, variance |-> v]
PixelKinds == {Unreadable, Readable(0), Readable(7)}

\* calculate_sharpness: 0.0 when the image cannot be read, else the variance
calculate_sharpness(px) == IF px.readable THEN px.variance ELSE 0

\* max(scores)
MaxOf(scores) == CHOOSE v \in {scores[n] : n \in 1..Len(scores)} :
                    \A n \in 1..Len(scores) : scores[n] <= v
\* scores.index(max_score): the first position, counted from 0
last_index(scores, v) ==
    (CHOOSE n \in 1..Len(scores) :
        scores[n] = v /\ \A m \in 1..Len(scores) : scores[m] = v => m <= n) - 1
index(scores, v) ==
    (CHOOSE n \in 1..Len(scores) :
        scores[n] = v /\ \A m \in 1..Len(scores) : scores[m] = v => n <= m) - 1

\* score_sequence: px gives what cv2 makes of each frame.  fallback and scored
\* are history: the positions (from 0) of the frames scored 0.0 because they
\* were unreadable, and that score_sequence ran on the sequence.
score_sequence_dropping(sequence, px) ==
    LET scores == [n \in 1..Len(sequence.frames) |-> calculate_sharpness(px[n])]
        Kept(seq) == IF px[Len(seq)].readable THEN seq ELSE SubSeq(seq, 1, Len(seq) - 1)
    IN [sequence EXCEPT
           !.frames = Kept(@),
           !.timestamps = Kept(@),
           !.sharpness_scores = Kept(scores),
           !.best_frame_idx = index(Kept(scores), MaxOf(Kept(scores))),
           !.fallback = {n - 1 : n \in {m \in 1..Len(Kept(scores)) : ~px[m].readable}},
           !.scored = TRUE]
score_sequence_stop(sequence, px) ==
    LET unread == {m \in 1..Len(sequence.frames) : ~px[m].readable}
        stop == IF unread = {} THEN Len(sequence.frames) + 1
                ELSE CHOOSE m \in unread : \A o \in unread : m <= o
        scores == [n \in 1..(stop - 1) |-> calculate_sharpness(px[n])]
    IN [sequence EXCEPT
           !.sharpness_scores = scores,
           !.best_frame_idx = IF scores # <<>> THEN index(scores, MaxOf(scores)) ELSE @,
           !.fallback = {},
           !.scored = TRUE]
score_sequence(sequence, px) ==
    LET scores == [n \in 1..Len(sequence.frames) |-> calculate_sharpness(px[n])] IN
    [sequence EXCEPT
        !.sharpness_scores = scores,
        !.best_frame_idx = IF scores # <<>> THEN index(scores, MaxOf(scores)) ELSE @,
        !.fallback = {n - 1 : n \in {m \in 1..Len(scores) : ~px[m].readable}},
        !.scored = TRUE]

\* f"Sequence:{sequence.sequence_id}"
SeqKeyword(sequence) == <<"Sequence:">> \o sequence.sequence_id
Best == <<"Sequence:", "B", "e", "s", "t">>

\* write_sequence_metadata: for every frame the keyword of the sequence, and
\* Sequence:Best for the frame at best_frame_idx, handed to write_xmp_keywords;
\* cannot_write are the positions (from 1) of the frames whose write fails or
\* raises.  Nothing is written with dry_run.
write_sequence_metadata_stop(sequence, dry_run, cannot_write) ==
    LET reached == {n \in 1..Len(sequence.frames) : \A m \in cannot_write : n <= m} IN
    [sequence EXCEPT !.writing =
        IF dry_run THEN [called |-> TRUE, dry_run |-> TRUE, ret |-> TRUE, frames |-> <<>>]
        ELSE [called |-> TRUE, dry_run |-> FALSE,
              ret |-> cannot_write = {},
              frames |-> [n \in reached |->
                             [keywords |-> {SeqKeyword(sequence)} \cup
                                           (IF n - 1 = sequence.best_frame_idx
                                            THEN {Best} ELSE {}),
                              ok |-> n \notin cannot_write]]]]
write_sequence_metadata(sequence, dry_run, cannot_write) ==
    [sequence EXCEPT !.writing =
        IF dry_run THEN [called |-> TRUE, dry_run |-> TRUE, ret |-> TRUE, frames |-> <<>>]
        ELSE [called |-> TRUE, dry_run |-> FALSE,
              ret |-> cannot_write = {},
              frames |-> [n \in 1..Len(sequence.frames) |->
                             [keywords |-> {SeqKeyword(sequence)} \cup
                                           (IF n - 1 = sequence.best_frame_idx
                                            THEN {Best} ELSE {}),
                              ok |-> n \notin cannot_write]]]]

\* the variables of the sequence pass while it does not run
SeqIdle ==
    /\ seq_images = <<>>
    /\ exif = [p \in Shots |-> NoExif]
    /\ threshold_seconds = timedelta(0, 0)
    /\ sequences = <<>>
    /\ stage = "idle"
    /\ exiftool = "ok"

---------------------------------------------------------------------------
(* SpecStore: a client of the ProgressTracker API *)

\* keywords and inference time a client passes for an item
KeywordsOf(p) == <<"Num:", p[2]>>
TimeOf(p) == IF p[2] = "x" THEN 2 ELSE 3

\* the last call (history).  streak: how many mark_failed calls in a row, this
\* one included, were made on the call's key since the key had no failed
\* record; 0 when that is not how the key's record came about.
\* counted: the tracker's dict was made new by the constructor or by reset (and
\* not loaded from a file); marks: the mark_processed calls made on it since.
NoCall == [op |-> "none", path |-> AllPaths[1], check |-> FALSE, ret |-> FALSE,
           returned |-> FALSE, io |-> "ok", pre |-> NoData, streak |-> 0,
           counted |-> FALSE, marks |-> 0]
Called(op, p, chk, ret, returned, io, pre) ==
    [op |-> op, path |-> p, check |-> chk, ret |-> ret, returned |-> returned,
     io |-> io, pre |-> pre, streak |-> 0,
     counted |-> IF op = "init" THEN returned /\ disk.kind \in {"missing", "unreadable", "garbled"}
                 ELSE IF op = "reset" THEN returned
                 ELSE returned /\ call.counted,
     marks |-> IF op \in {"init", "reset"} \/ ~returned \/ ~call.counted THEN 0
               ELSE IF op = "mark_processed" THEN call.marks + 1
               ELSE call.marks]
Streak(op, p) ==
    IF op # "mark_failed" \/ data.shape # "aggregate" THEN 0
    ELSE IF get_file_key(p) \notin DOMAIN data.failed THEN 1
    ELSE IF /\ call.op = "mark_failed" /\ call.returned /\ call.streak > 0
            /\ get_file_key(call.path) = get_file_key(p)
         THEN call.streak + 1
         ELSE 0

\* Python's None for a payload, the absent future, the result before any item
None == <<>>
NoFuture == [state |-> "none", item |-> 0, value |-> None]
NoResult == [image |-> <<>>, success |-> FALSE, keywords |-> <<>>, error |-> "None",
             inference_time |-> 0, via |-> "none", written |-> FALSE,
             malformed |-> FALSE]
NoRuns == [n |-> 0, completed |-> {}, plain |-> TRUE]

\* the variables of main(), unused while a client drives the tracker
MainIdle ==
    /\ args = [resume |-> FALSE, reset |-> FALSE]
    /\ images = <<>>
    /\ idx = 0
    /\ next_encoded = None
    /\ current_encoded = None
    /\ next_future = NoFuture
    /\ result = NoResult
    /\ results = <<>>
    /\ counts = [processed |-> 0, failed |-> 0]
    /\ ok_items = {}
    /\ log = <<>>
    /\ runs = NoRuns

InitStore ==
    /\ files = [p \in Paths |-> Stat(1, 11)]
    /\ disk \in {FileOf("missing")} \cup CorruptFiles
    /\ data = NoData
    /\ now = 0
    /\ pc = "none"
    /\ call = NoCall
    /\ peer = NoData
    /\ MainIdle
    /\ SeqIdle

\* tracker = ProgressTracker(progress_file)
Construct ==
    /\ pc = "none"
    /\ LET r == load(disk, now) IN
        /\ pc' = IF r.raised THEN "aborted" ELSE "ready"
        /\ data' = r.data
        /\ call' = Called("init", AllPaths[1], FALSE, FALSE, ~r.raised, "ok", NoData)
    /\ UNCHANGED <<files, disk, now, mainVars, seqVars, peer>>

\* a handler that ends in _save: the new dict d, saved with outcome io
Mutate(op, p, d, io) ==
    LET s == save(d, disk, now + 1, io) IN
    /\ now' = now + 1
    /\ disk' = s.disk
    /\ data' = IF io = "killed" THEN NoData ELSE s.data
    /\ pc' = IF io = "killed" THEN "none" ELSE pc
    /\ call' = [Called(op, p, FALSE, FALSE, io # "killed", io, data)
                   EXCEPT !.streak = Streak(op, p)]
    /\ UNCHANGED <<files, mainVars, seqVars, peer>>

\* a handler that indexes self.data raises KeyError on a dict without the keys
Raise(op, p) ==
    /\ pc' = "aborted"
    /\ call' = Called(op, p, FALSE, FALSE, FALSE, "ok", data)
    /\ UNCHANGED <<files, disk, data, now, mainVars, seqVars, peer>>

MarkProcessedCall(p, io) ==
    /\ pc = "ready"
    /\ now < MaxTime
    /\ IF data.shape = "aggregate"
       THEN Mutate("mark_processed", p,
                   mark_processed(data, files, now + 1, p, KeywordsOf(p), TimeOf(p),
                                  EmptyDict), io)
       ELSE io = "ok" /\ Raise("mark_processed", p)

MarkFailedCall(p, io) ==
    /\ pc = "ready"
    /\ now < MaxTime
    /\ IF data.shape = "aggregate"
       THEN Mutate("mark_failed", p, mark_failed(data, now + 1, p, "error"), io)
       ELSE io = "ok" /\ Raise("mark_failed", p)

ResetCall(io) ==
    /\ pc = "ready"
    /\ now < MaxTime
    /\ Mutate("reset", AllPaths[1], reset(now + 1), io)

IsProcessedCall(p, chk) ==
    /\ pc = "ready"
    /\ IF data.shape = "aggregate"
       THEN /\ call' = Called("is_processed", p, chk, is_processed(data, files, p, chk),
                              TRUE, "ok", data)
            /\ UNCHANGED <<files, disk, data, now, pc, mainVars, seqVars, peer>>
       ELSE Raise("is_processed", p)

\* the environment changes an image file (or removes it)
TouchFile(p, st) ==
    /\ now < MaxTime
    /\ files[p] # st
    /\ files' = [files EXCEPT ![p] = st]
    /\ now' = now + 1
    /\ call' = [NoCall EXCEPT !.counted = call.counted, !.marks = call.marks]
    /\ UNCHANGED <<disk, data, pc, mainVars, seqVars, peer>>

\* the process ends (exit, kill, or after an uncaught exception); a new one may start
EndProcess ==
    /\ pc \in {"ready", "aborted"}
    /\ pc' = "none"
    /\ data' = NoData
    /\ call' = NoCall
    /\ UNCHANGED <<files, disk, now, mainVars, seqVars, peer>>

NextStore ==
    \/ Construct
    \/ \E p \in Paths, io \in SaveOutcomes : MarkProcessedCall(p, io)
    \/ \E p \in Paths, io \in SaveOutcomes : MarkFailedCall(p, io)
    \/ \E io \in SaveOutcomes : ResetCall(io)
    \/ \E p \in Paths, chk \in BOOLEAN : IsProcessedCall(p, chk)
    \/ \E p \in Paths, st \in FileStats : TouchFile(p, st)
    \/ EndProcess

SpecStore == InitStore /\ [][NextStore]_vars

---------------------------------------------------------------------------
(* Claims about the ProgressTracker, checked under SpecStore *)

Mutators == {"mark_processed", "mark_failed", "reset"}
CallKey == get_file_key(call.path)

\* C5: after a mutating call (mark_processed, mark_failed, reset) returns
\* normally, the state file holds the in-memory aggregate including that
\* mutation; it never returns while the file holds something else.
C5_SavedOnReturn ==
    (call.op \in Mutators /\ call.returned) => disk = json_dump(data)

\* C6: the state file is replaced atomically: whenever its content changes, kill
\* or not, the new content is a complete aggregate, never an empty or partial one.
C6_AtomicSave ==
    [][disk' # disk => (disk'.kind = "json" /\ disk'.doc.shape = "aggregate")]_vars

\* C7: is_processed(item, verify) is true exactly when a processed record exists
\* for the item's key and, if verify, the file's size and modification time are
\* those it had when the record was made.
C7_IsProcessedIff ==
    (call.op = "is_processed" /\ call.returned) =>
        (call.ret <=> /\ CallKey \in DOMAIN data.processed
                      /\ call.check => files[call.path] = data.processed[CallKey].at_mark)

\* C7 witness: a record exists for the item itself, the file changed since, and
\* the verifying is_processed answered false.
C7_Witness ==
    /\ call.op = "is_processed" /\ call.returned /\ call.check /\ ~call.ret
    /\ CallKey \in DOMAIN data.processed
    /\ data.processed[CallKey].path = PathStr(call.path)
    /\ data.processed[CallKey].at_mark.exists /\ files[call.path].exists

\* C8: no key is in both the processed map and the failed map.
C8_ProcessedXorFailed ==
    data.shape = "aggregate" => DOMAIN data.processed \cap DOMAIN data.failed = {}

\* C9: mark_processed on a key with a failed record removes the record and takes
\* the key's failures (its attempts, one per mark_failed) back out of the
\* cumulative failed counter.
C9_FailedCounterRestored ==
    (call.op = "mark_processed" /\ call.returned /\ CallKey \in DOMAIN call.pre.failed) =>
        /\ CallKey \notin DOMAIN data.failed
        /\ data.stats.total_failed =
             call.pre.stats.total_failed - call.pre.failed[CallKey].attempts

\* C10: constructing the tracker never aborts, and over a state file that is
\* missing, unreadable or corrupt it yields a fresh empty aggregate.
C10_LoadNeverAborts ==
    call.op = "init" =>
        /\ pc = "ready"
        /\ (disk.kind # "json" \/ disk.doc.shape # "aggregate") => data = FreshData(now)

\* C22: mark_failed leaves the key with a failed record whose attempts is the
\* key's previous attempts plus one (1 when it had no failed record) and adds one
\* to the cumulative failed counter; after n mark_failed calls in a row on a key
\* that had no failed record, attempts is n.
C22_AttemptsCount ==
    (call.op = "mark_failed" /\ call.returned) =>
        /\ CallKey \in DOMAIN data.failed
        /\ data.failed[CallKey].attempts =
             (IF CallKey \in DOMAIN call.pre.failed
              THEN call.pre.failed[CallKey].attempts + 1 ELSE 1)
        /\ data.stats.total_failed = call.pre.stats.total_failed + 1
        /\ call.streak > 0 => data.failed[CallKey].attempts = call.streak

\* C22 witness: the third mark_failed in a row on a key that had no failed record
C22_Witness ==
    /\ call.op = "mark_failed" /\ call.returned /\ call.streak = 3
    /\ data.failed[CallKey].attempts = 3
    /\ data.stats.total_failed = 3

\* C23: after reset() returns, the processed and failed maps are empty and the
\* cumulative counters are zero, in memory and in the state file, and
\* is_processed is false for every item.
C23_ResetClears ==
    (call.op = "reset" /\ call.returned) =>
        /\ data.processed = EmptyDict /\ data.failed = EmptyDict
        /\ data.stats = [total_processed |-> 0, total_failed |-> 0, total_time |-> 0]
        /\ disk.kind = "json" /\ disk.doc.shape = "aggregate"
        /\ disk.doc.processed = EmptyDict /\ disk.doc.failed = EmptyDict
        /\ disk.doc.stats = data.stats
        /\ \A p \in Paths, chk \in BOOLEAN : ~is_processed(data, files, p, chk)

\* C39: on a tracker whose dict was made new by the constructor or by reset,
\* after any mark_processed and mark_failed calls, total_failed is at least the
\* number of failed records and never negative, total_processed is at least the
\* number of processed records, and total_processed is the number of
\* mark_processed calls made since the dict was new.
C39_CountersBoundMaps ==
    (pc = "ready" /\ call.counted /\ data.shape = "aggregate") =>
        /\ data.stats.total_failed >= Cardinality(DOMAIN data.failed)
        /\ data.stats.total_failed >= 0
        /\ data.stats.total_processed >= Cardinality(DOMAIN data.processed)
        /\ data.stats.total_processed = call.marks

\* C39 witness: on a new dict an item failed twice and was then marked
\* processed: no failed record is left, total_failed went from 2 to 1, and the
\* one mark_processed call is counted
C39_Witness ==
    /\ pc = "ready" /\ call.counted /\ call.op = "mark_processed" /\ call.returned
    /\ call.marks = 1 /\ data.stats.total_processed = 1
    /\ call.pre.stats.total_failed = 2 /\ Cardinality(DOMAIN call.pre.failed) = 1
    /\ data.stats.total_failed = 1 /\ data.failed = EmptyDict

\* the keys of the processed records made for a file of this name
RecordsNamed(name) == {k \in DOMAIN data.processed : data.processed[k].path[3] = name}

---------------------------------------------------------------------------
(* SpecPair: two processes A and B, each with a ProgressTracker of its own  *)
(* on the same state file.  data is A's dict, peer is B's; log is the       *)
(* history of their calls.                                                  *)

Writers == {"A", "B"}
DataOf(w) == IF w = "A" THEN data ELSE peer
Wrote(w, op, p, io) == [who |-> w, op |-> op, path |-> p, io |-> io]
pairIdle == <<files, pc, call, args, images, idx, next_encoded, current_encoded,
              next_future, result, results, counts, ok_items, runs, seqVars>>

InitPair ==
    /\ files = [p \in Paths |-> Stat(1, 11)]
    /\ disk = FileOf("missing")
    /\ data = NoData
    /\ peer = NoData
    /\ now = 0
    /\ pc = "none"
    /\ call = NoCall
    /\ MainIdle
    /\ SeqIdle

\* tracker = ProgressTracker(progress_file) in process w
Open(w) ==
    /\ DataOf(w) = NoData
    /\ ~load(disk, now).raised
    /\ IF w = "A" THEN data' = load(disk, now).data /\ UNCHANGED peer
                  ELSE peer' = load(disk, now).data /\ UNCHANGED data
    /\ log' = Append(log, Wrote(w, "init", AllPaths[1], "ok"))
    /\ UNCHANGED <<disk, now, pairIdle>>

\* tracker.mark_processed(p, ...) or tracker.mark_failed(p, ...) in process w,
\* _save included
Write(w, op, p, io) ==
    /\ DataOf(w).shape = "aggregate"
    /\ now < MaxWrites
    /\ LET d == IF op = "mark_processed"
                THEN mark_processed(DataOf(w), files, now + 1, p, KeywordsOf(p), TimeOf(p),
                                    EmptyDict)
                ELSE mark_failed(DataOf(w), now + 1, p, "error")
           s == save(d, disk, now + 1, io)
       IN /\ disk' = s.disk
          /\ IF w = "A" THEN data' = s.data /\ UNCHANGED peer
                        ELSE peer' = s.data /\ UNCHANGED data
    /\ now' = now + 1
    /\ log' = Append(log, Wrote(w, op, p, io))
    /\ UNCHANGED pairIdle

NextPair ==
    \/ \E w \in Writers : Open(w)
    \/ \E w \in Writers, op \in {"mark_processed", "mark_failed"}, p \in Paths,
          io \in SaveOutcomes \ {"killed"} : Write(w, op, p, io)

SpecPair == InitPair /\ [][NextPair]_vars

\* the map a call writes its record to
MapOf(d, op) == IF op = "mark_processed" THEN d.processed ELSE d.failed
\* the last two calls are writes of the two processes, on different keys, and
\* both saves succeeded
TwoWriters ==
    LET n == Len(log) IN
    /\ n >= 2
    /\ log[n].op # "init" /\ log[n - 1].op # "init"
    /\ log[n].who # log[n - 1].who
    /\ log[n].io = "ok" /\ log[n - 1].io = "ok"
    /\ get_file_key(log[n].path) # get_file_key(log[n - 1].path)

\* C26: nothing coordinates two writers.  When two trackers on one state file
\* each record a different item, one after the other, the file then holds the
\* last writer's aggregate and nothing else: the record the other tracker made
\* is not in the file, so a load of the file does not bring it back.
C26_LastWriterWins ==
    TwoWriters =>
        LET last == log[Len(log)]
            other == log[Len(log) - 1]
            key == get_file_key(other.path)
            made == MapOf(DataOf(other.who), other.op)
            loaded == MapOf(load(disk, now).data, other.op)
        IN /\ disk = json_dump(DataOf(last.who))
           /\ key \in DOMAIN made
           /\ key \in DOMAIN loaded => loaded[key] # made[key]

\* C26 witness: both trackers were opened on the empty file, A recorded a/x as
\* processed, then B recorded a/y; the file holds a/y only.
C26_Witness ==
    /\ TwoWriters
    /\ log[Len(log)].op = "mark_processed" /\ log[Len(log) - 1].op = "mark_processed"
    /\ DOMAIN disk.doc.processed = {get_file_key(log[Len(log)].path)}
    /\ get_file_key(log[Len(log) - 1].path) \in DOMAIN DataOf(log[Len(log) - 1].who).processed

---------------------------------------------------------------------------
(* main(): pure parts *)

\* find_images: the supported files under the input path, sorted by str(path)
find_images(fs) == SelectSeq(AllPaths, LAMBDA p : fs[p].exists)

\* images = [img for img in images if not tracker.is_processed(img)]
resume_filter_by_key(imgs, d, fs) == SelectSeq(imgs, LAMBDA p : ~is_processed(d, fs, p, FALSE))
resume_filter(imgs, d, fs) == SelectSeq(imgs, LAMBDA p : ~is_processed(d, fs, p, TRUE))

\* encode_image_task: inference.encode_image(img_path), None on any exception.
\* LlamaVisionInference defines _encode_image and analyze_image only, so the
\* call raises AttributeError, which the task catches.
encode_image_task(img_path) == None

\* the items whose keyword write fails (exiftool error or timeout): a/x
unwritable == {AllPaths[1]}

\* write_xmp_keywords: True when exiftool wrote the keywords; False, with
\* nothing raised, when exiftool fails or times out
write_xmp_keywords(target_path, cannot_write) == target_path \notin cannot_write

\* the items whose model response holds no JSON that parses, not even after
\* the repair of a truncated object: a/y
garbled == {AllPaths[2]}

\* analyze_image: the text the model answers for an item.  json tells what the
\* text holds from its first brace on: a complete object, an object cut off
\* before its closing brace, or nothing json.loads accepts; numbers are the
\* car numbers the object carries.
analyze_image(image_path) ==
    [json |-> IF image_path \in garbled THEN "unparseable"
              ELSE IF image_path[1] = "b" THEN "truncated" ELSE "complete",
     numbers |-> <<image_path[2]>>]

\* fix_truncated_json: closes the open strings, brackets and braces
fix_truncated_json(response) ==
    IF response.json = "truncated" THEN [response EXCEPT !.json = "complete"]
    ELSE response

\* parse_model_response: the default metadata, filled from the JSON object when
\* json.loads accepts the (repaired) text.  A JSONDecodeError is passed over and
\* the text fallback finds no "key: value" line, so the default metadata is
\* returned and nothing is raised.  structured is history: whether an object
\* was parsed.
parse_model_response(response) ==
    LET json_str == fix_truncated_json(response)
    IN IF json_str.json = "complete"
       THEN [car_detected |-> TRUE, numbers |-> json_str.numbers, structured |-> TRUE]
       ELSE [car_detected |-> TRUE, numbers |-> <<>>, structured |-> FALSE]

\* metadata_to_keywords: one Num keyword for the car number, none for the
\* default metadata
metadata_to_keywords(metadata) ==
    IF metadata.numbers = <<>> THEN <<>> ELSE <<"Num:", metadata.numbers[1]>>

\* process_single_image: analyze_image (which encodes inline), parse, keywords,
\* write; any exception ends in success = False.  Empty keywords are written as
\* the marker keyword Classified.  The value write_xmp_keywords returns is not
\* looked at.  via, written and malformed are history: the function that made
\* the result, whether the keywords were written, and whether the response was
\* one that could not be parsed.
process_single_image_skip(image_path, ok, cannot_write) == NoResult
process_single_image(image_path, ok, cannot_write) ==
    LET metadata == parse_model_response(analyze_image(image_path))
    IN [image |-> PathStr(image_path),
        success |-> image_path \in ok,
        keywords |-> IF image_path \in ok THEN metadata_to_keywords(metadata) ELSE <<>>,
        error |-> IF image_path \in ok THEN "None" ELSE "error",
        inference_time |-> IF image_path \in ok THEN TimeOf(image_path) ELSE 0,
        via |-> "process_single_image",
        written |-> image_path \in ok /\ write_xmp_keywords(image_path, cannot_write),
        malformed |-> image_path \in ok /\ ~metadata.structured]

\* process_with_encoded_image: inference.analyze_encoded_image is not defined
\* either; the AttributeError is caught and the result is a failure
process_with_encoded_image(image_path, image_data, ok) ==
    [image |-> PathStr(image_path), success |-> FALSE, keywords |-> <<>>,
     error |-> "AttributeError", inference_time |-> 0,
     via |-> "process_with_encoded_image", written |-> FALSE, malformed |-> FALSE]

\* lines 774-776: next_future = executor.submit(encode_image_task, images[i])
\* when the current item (the i-th, from 1) has a successor
submit_none(imgs, i) == NoFuture
submit_same(imgs, i) ==
    IF i < Len(imgs) THEN [state |-> "running", item |-> i, value |-> None]
    ELSE NoFuture
submit_skip(imgs, i) ==
    IF i + 1 < Len(imgs) THEN [state |-> "running", item |-> i + 2, value |-> None]
    ELSE NoFuture
submit(imgs, i) ==
    IF i < Len(imgs) THEN [state |-> "running", item |-> i + 1, value |-> None]
    ELSE NoFuture

append_result_front(rs, r) == <<r>> \o rs
append_result_lost(rs, r) == rs

\* results.append(result)
append_result(rs, r) == Append(rs, r)

Event(ev, i) == [ev |-> ev, i |-> i]

\* history: the items the running process has completed successfully
Succeeded(imgs, rs) == {imgs[i] : i \in {n \in 1..Len(rs) : rs[n].success}}

---------------------------------------------------------------------------
(* Spec: main() on one job directory, killed and started again *)

\* the job directories of the model: a/x is there, a/y may be, and b/x, which
\* shares a/x's filename, may be there with the same size and time; the items
\* whose inference may fail are a/x and b/x
JobFiles == {f \in [Paths -> {Stat(1, 11), Missing}] : f[AllPaths[1]] = Stat(1, 11)}

Init ==
    /\ files \in JobFiles
    /\ find_images(files) # <<>>
    /\ ok_items \in SUBSET {p \in Paths : files[p].exists}
    /\ files[AllPaths[2]].exists => AllPaths[2] \in ok_items
    /\ disk = FileOf("missing")
    /\ data = NoData
    /\ now = 0
    /\ pc = "none"
    /\ call = NoCall
    /\ args = [resume |-> FALSE, reset |-> FALSE]
    /\ images = <<>>
    /\ idx = 0
    /\ next_encoded = None
    /\ current_encoded = None
    /\ next_future = NoFuture
    /\ result = NoResult
    /\ results = <<>>
    /\ counts = [processed |-> 0, failed |-> 0]
    /\ log = <<>>
    /\ runs = NoRuns
    /\ peer = NoData
    /\ SeqIdle

\* runs.n          the number of processes started
\* runs.completed  the items completed successfully by a process killed later
\* runs.plain      no process was given --reset and every restart was a --resume
Killed == [runs EXCEPT !.completed = @ \cup Succeeded(images, results)]

\* the memory of a process that is gone
Wiped ==
    /\ data' = NoData
    /\ args' = [resume |-> FALSE, reset |-> FALSE]
    /\ log' = <<>>
    /\ images' = <<>>
    /\ idx' = 0
    /\ next_encoded' = None
    /\ current_encoded' = None
    /\ next_future' = NoFuture
    /\ result' = NoResult
    /\ results' = <<>>
    /\ counts' = [processed |-> 0, failed |-> 0]

\* main() from its start to the first loop iteration (lines 629-764): find the
\* images, construct the tracker, reset, filter for resume, pre-encode the first
Start(do_resume, do_reset, io) ==
    /\ pc \in {"none", "killed", "done", "exit", "aborted"}
    /\ runs.n <= MaxRestarts
    /\ do_reset \/ io = "ok"
    /\ LET r == load(disk, now)
           t == IF do_reset THEN now + 1 ELSE now
           s == IF do_reset THEN save(reset(t), disk, t, io)
                         ELSE [data |-> r.data, disk |-> disk]
           raises == r.raised \/ (~do_reset /\ do_resume /\ r.data.shape # "aggregate")
           killed == do_reset /\ io = "killed"
           found == find_images(files)
           imgs == IF do_resume /\ ~raises THEN resume_filter(found, s.data, files) ELSE found
       IN
        /\ now' = t
        /\ runs' = [n |-> runs.n + 1,
                    completed |-> IF do_reset /\ ~r.raised THEN {} ELSE runs.completed,
                    plain |-> runs.plain /\ ~do_reset /\ (runs.n = 0 \/ do_resume)]
        /\ call' = NoCall
        /\ IF raises \/ killed
           THEN /\ pc' = IF raises THEN "aborted" ELSE "killed"
                /\ disk' = IF raises THEN disk ELSE s.disk
                /\ Wiped
           ELSE /\ disk' = s.disk
                /\ data' = s.data
                /\ args' = [resume |-> do_resume, reset |-> do_reset]
                /\ images' = imgs
                /\ results' = <<>>
                /\ counts' = [processed |-> 0, failed |-> 0]
                /\ result' = NoResult
                /\ current_encoded' = None
                /\ next_future' = NoFuture
                /\ IF imgs = <<>>
                   THEN pc' = "exit" /\ idx' = 0 /\ next_encoded' = None /\ log' = <<>>
                   ELSE /\ pc' = "loop"
                        /\ log' = <<Event("encoded", 1)>>
                        /\ idx' = 1
                        /\ next_encoded' = encode_image_task(imgs[1])
    /\ UNCHANGED <<seqVars, peer, files, ok_items>>

\* lines 767-776: take the payload, submit the next item's encoding
LoopTop ==
    /\ pc = "loop"
    /\ current_encoded' = next_encoded
    /\ next_future' = submit(images, idx)
    /\ log' = IF next_future' # NoFuture
              THEN Append(log, Event("submit", next_future'.item)) ELSE log
    /\ pc' = "call"
    /\ UNCHANGED <<seqVars, peer, files, disk, data, now, call, args, images, idx, next_encoded,
                   result, results, counts, ok_items, runs>>

\* lines 779-798: the foreground call for the current item starts
ProcessBegin ==
    /\ pc = "call"
    /\ pc' = "processing"
    /\ log' = Append(log, Event("begin", idx))
    /\ UNCHANGED <<seqVars, peer, files, disk, data, now, call, args, images, idx, next_encoded,
                   current_encoded, next_future, result, results, counts, ok_items, runs>>

\* ... and returns the item's result
ProcessEnd ==
    /\ pc = "processing"
    /\ result' = IF current_encoded # None
                 THEN process_with_encoded_image(images[idx], current_encoded, ok_items)
                 ELSE process_single_image(images[idx], ok_items, unwritable)
    /\ pc' = "await"
    /\ log' = Append(log, Event("end", idx))
    /\ UNCHANGED <<seqVars, peer, files, disk, data, now, call, args, images, idx, next_encoded,
                   current_encoded, next_future, results, counts, ok_items, runs>>

\* the executor's worker thread runs the submitted encode_image_task
BackgroundEncode ==
    /\ pc \in {"call", "processing", "await"}
    /\ next_future.state = "running"
    /\ next_future' = [next_future EXCEPT !.state = "done",
                                          !.value = encode_image_task(images[next_future.item])]
    /\ log' = Append(log, Event("encoded", next_future.item))
    /\ UNCHANGED <<seqVars, peer, files, disk, data, now, pc, call, args, images, idx, next_encoded,
                   current_encoded, result, results, counts, ok_items, runs>>

\* lines 801-804: next_future.result() blocks until the task is done
Await ==
    /\ pc = "await"
    /\ next_future.state # "running"
    /\ next_encoded' = IF next_future.state = "done" THEN next_future.value ELSE None
    /\ log' = IF next_future.state = "done"
              THEN Append(log, Event("await", next_future.item)) ELSE log
    /\ pc' = "record"
    /\ UNCHANGED <<seqVars, peer, files, disk, data, now, call, args, images, idx, current_encoded,
                   next_future, result, results, counts, ok_items, runs>>

\* lines 806-821: append the result; on success tracker.mark_processed (and its
\* _save, with outcome io); on failure only the run's counter
Record(io) ==
    /\ pc = "record"
    /\ result.success \/ io = "ok"
    /\ io = "killed" => runs.n <= MaxRestarts
    /\ LET p == images[idx]
           t == IF result.success THEN now + 1 ELSE now
           s == IF result.success
                THEN save(mark_processed(data, files, t, p, result.keywords, 0, EmptyDict),
                          disk, t, io)
                ELSE [data |-> data, disk |-> disk]
       IN
        /\ now' = t
        /\ disk' = s.disk
        /\ IF io = "killed"
           THEN /\ pc' = "killed"
                /\ Wiped
                /\ runs' = Killed
           ELSE /\ data' = s.data
                /\ results' = append_result(results, result)
                /\ counts' = IF result.success
                             THEN [counts EXCEPT !.processed = @ + 1]
                             ELSE [counts EXCEPT !.failed = @ + 1]
                /\ log' = IF result.success THEN Append(log, Event("mark", idx)) ELSE log
                /\ runs' = runs
                /\ idx' = idx + 1
                /\ pc' = IF idx < Len(images) THEN "loop" ELSE "done"
                /\ UNCHANGED <<args, images, next_encoded, current_encoded, next_future,
                               result>>
    /\ UNCHANGED <<seqVars, peer, files, call, ok_items>>

\* the process is killed between two steps
Kill ==
    /\ pc \in {"loop", "call", "processing", "await", "record"}
    /\ runs.n <= MaxRestarts
    /\ pc' = "killed"
    /\ Wiped
    /\ runs' = Killed
    /\ UNCHANGED <<seqVars, peer, files, disk, now, call, ok_items>>

\* while no process runs, the image a/y is edited: its size and modification
\* time change
FileChanged ==
    /\ pc \in {"killed", "done", "exit", "aborted"}
    /\ runs.n <= MaxRestarts
    /\ files[AllPaths[2]] = Stat(1, 11)
    /\ files' = [files EXCEPT ![AllPaths[2]] = Stat(11, 1)]
    /\ UNCHANGED <<seqVars, peer, disk, data, now, pc, call, mainVars>>

Next ==
    \/ \E do_resume \in BOOLEAN, do_reset \in BOOLEAN, io \in SaveOutcomes :
          Start(do_resume, do_reset, io)
    \/ FileChanged
    \/ LoopTop
    \/ ProcessBegin
    \/ ProcessEnd
    \/ BackgroundEncode
    \/ Await
    \/ \E io \in SaveOutcomes : Record(io)
    \/ Kill

Spec == Init /\ [][Next]_vars

\* main() with no kill: every started process runs to its end.  The foreground
\* call returns (process_single_image catches every exception, the HTTP call
\* and exiftool have timeouts), the worker thread runs the submitted task, and
\* the main thread goes on whenever it can.
NextRun ==
    \/ \E do_resume \in BOOLEAN, do_reset \in BOOLEAN, io \in SaveOutcomes \ {"killed"} :
          Start(do_resume, do_reset, io)
    \/ FileChanged
    \/ LoopTop
    \/ ProcessBegin
    \/ ProcessEnd
    \/ BackgroundEncode
    \/ Await
    \/ \E io \in SaveOutcomes \ {"killed"} : Record(io)

SpecRun ==
    /\ Init
    /\ [][NextRun]_vars
    /\ WF_vars(LoopTop)
    /\ WF_vars(ProcessBegin)
    /\ WF_vars(ProcessEnd)
    /\ WF_vars(BackgroundEncode)
    /\ WF_vars(Await)
    /\ WF_vars(\E io \in SaveOutcomes \ {"killed"} : Record(io))

---------------------------------------------------------------------------
(* Claims about main(), checked under Spec *)

\* the place of an event in the log of the running process, 0 if it is not there
At(ev, i) == {n \in 1..Len(log) : log[n] = Event(ev, i)}
Pos(ev, i) == LET at == At(ev, i) IN IF at = {} THEN 0 ELSE CHOOSE n \in at : TRUE
Times(ev, i) == Cardinality(At(ev, i))
\* Pos(ev, i) for every item i of the list, as a sequence
PosAll(ev) == <<>> \o [i \in 1..Len(images) |-> Pos(ev, i)]

\* C1: items are processed strictly in input order and the result list has one
\* entry per item, in input order: for i < j the processing of item i has ended,
\* and its progress-store mutation is done, before the processing of item j
\* starts; results[i] is the result of item i.
C1_InputOrder ==
    /\ Len(results) <= Len(images)
    /\ pc = "done" => Len(results) = Len(images)
    /\ \A i \in 1..Len(results) :
          /\ results[i].image = PathStr(images[i])
          /\ results[i].success <=> images[i] \in ok_items
    /\ \A i \in 1..Len(images) :
          /\ Times("begin", i) <= 1 /\ Times("end", i) <= 1 /\ Times("mark", i) <= 1
          /\ Pos("mark", i) > 0 => (i <= Len(results) /\ results[i].success)
    /\ LET begin == PosAll("begin")
           end == PosAll("end")
           mark == PosAll("mark")
       IN \A i \in 1..Len(images), j \in 1..Len(images) :
            (i < j /\ begin[j] > 0) =>
                /\ begin[i] > 0 /\ begin[i] < end[i]
                /\ end[i] < begin[j]
                /\ images[i] \in ok_items => (mark[i] > end[i] /\ mark[i] < begin[j])
                /\ mark[j] > 0 => mark[i] < mark[j]

\* C1 witness: a run over three items has ended, the first and the last recorded
C1_Witness ==
    /\ pc = "done" /\ Len(images) = 3 /\ Len(results) = 3
    /\ Pos("mark", 1) > 0 /\ Pos("mark", 3) > Pos("mark", 1)

\* C2: after a kill and a restart with resume on the same job directory (files
\* unchanged), no item that the killed process had completed successfully is
\* processed again.
C2_NoWorkLost ==
    (pc = "processing" /\ args.resume /\ ~args.reset) => images[idx] \notin runs.completed

\* C3: at the end of a run every item has one terminal state, in the result list
\* and in the store: a success has a processed record, a failure a failed record.
C3_TerminalStateRecorded ==
    pc = "done" =>
        /\ Len(results) = Len(images)
        /\ \A i \in 1..Len(results) :
              /\ results[i].success => get_file_key(images[i]) \in DOMAIN data.processed
              /\ ~results[i].success => get_file_key(images[i]) \in DOMAIN data.failed

\* the store after one run over the item list with no interruption
RECURSIVE UninterruptedRun(_, _, _, _)
UninterruptedRun(imgs, d, fs, ok) ==
    IF imgs = <<>> THEN d
    ELSE UninterruptedRun(Tail(imgs),
                          IF Head(imgs) \in ok
                          THEN mark_processed(d, fs, 0, Head(imgs),
                                              process_single_image(Head(imgs), ok, {}).keywords,
                                              0, EmptyDict)
                          ELSE d,
                          fs, ok)

\* C4: a run interrupted anywhere and resumed (filter by is_processed, run over
\* the remainder) ends with the store, timestamps aside, that one uninterrupted
\* run over the full list ends with.
C4_ResumeEquivalence ==
    (pc \in {"done", "exit"} /\ runs.plain) =>
        Strip(data) = Strip(UninterruptedRun(find_images(files), FreshData(0), files, ok_items))

\* C17: for every item i that has a successor, the background encoding of item
\* i+1 is submitted before the processing call for item i starts, and its result
\* is awaited only after that call has returned (and before item i+1 is processed).
C17_PrepareOverlapsProcess ==
    LET begin == PosAll("begin")
        end == PosAll("end")
        submitted == PosAll("submit")
        awaited == PosAll("await")
    IN \A i \in 1..(Len(images) - 1) :
        /\ begin[i] > 0 => (submitted[i + 1] > 0 /\ submitted[i + 1] < begin[i])
        /\ awaited[i + 1] > 0 => (end[i] > 0 /\ end[i] < awaited[i + 1])
        /\ begin[i + 1] > 0 => awaited[i + 1] > 0

\* C17 witness: a run over three items has ended; the third item was encoded in
\* the background while the second was being processed, and awaited afterwards
C17_Witness ==
    /\ pc = "done" /\ Len(images) = 3
    /\ Pos("submit", 3) > 0 /\ Pos("submit", 3) < Pos("begin", 2)
    /\ Pos("encoded", 3) > Pos("begin", 2) /\ Pos("encoded", 3) < Pos("end", 2)
    /\ Pos("await", 3) > Pos("end", 2)

\* the items whose encoding is finished and which the loop has not taken yet
PreparedAhead ==
    {j \in 1..Len(images) :
        Pos("encoded", j) > 0 /\ ~(j < idx \/ (j = idx /\ pc # "loop"))}

\* C18: the pipeline has depth 1.  At most one encode task is running, it
\* encodes the item right after the one being processed, no item is submitted
\* twice, and at most one finished encoding waits for the loop to take it.
C18_DepthOne ==
    /\ next_future.state = "running" =>
          (pc \in {"call", "processing", "await"} /\ next_future.item = idx + 1)
    /\ Cardinality({j \in 1..Len(images) : Times("submit", j) > Times("encoded", j)}) <= 1
    /\ \A j \in 1..Len(images) : Times("submit", j) <= 1
    /\ Cardinality(PreparedAhead) <= 1

\* C18 witness: the second item is being processed while the encoding of the
\* third is running
C18_Witness ==
    /\ pc = "processing" /\ idx = 2
    /\ next_future.state = "running" /\ next_future.item = 3

\* C19: an item whose encoding failed (the task gave no payload) is processed
\* all the same, by process_single_image, which encodes inline; the encoding of
\* its successor is submitted to the background again; no item is skipped and
\* the run goes to its end.
C19_PrepareFailureFallsBack ==
    /\ \A i \in 1..Len(images) :
          encode_image_task(images[i]) = None =>
              /\ i <= Len(results) =>
                    /\ results[i].image = PathStr(images[i])
                    /\ results[i].via = "process_single_image"
              /\ (i < Len(images) /\ Pos("begin", i) > 0) => Pos("submit", i + 1) > 0
              /\ (i > 1 /\ Pos("begin", i) > 0) => Pos("end", i - 1) > 0
    /\ pc = "done" => Len(results) = Len(images)
    /\ pc \in {"loop", "call", "processing", "await", "record"} => idx = Len(results) + 1

\* C19 witness: a run over three items, none of which could be encoded ahead,
\* has ended with a result for each, the second and third successful
C19_Witness ==
    /\ pc = "done" /\ Len(results) = 3
    /\ \A i \in 1..3 : /\ encode_image_task(images[i]) = None
                       /\ results[i].via = "process_single_image"
    /\ results[2].success /\ results[3].success

\* C20: a failure of one item (inference error, failed or timed-out external
\* call, unreadable file) is in the item's result as success = False with the
\* error, and the items after it are still processed.
C20_ItemFailureCaptured ==
    /\ \A i \in 1..Len(results) :
          ~results[i].written => (~results[i].success /\ results[i].error # "None")
    /\ pc = "done" => Len(results) = Len(images)

\* C21: an item whose model response is malformed beyond repair ends with
\* success = False; it is not counted as a success and no processed record is
\* written for it.
C21_MalformedResponseFails ==
    \A i \in 1..Len(results) :
        results[i].malformed =>
            /\ ~results[i].success
            /\ Pos("mark", i) = 0

\* the item whose preparation produced the payload that the processing call of
\* item i was handed: item 1's is encoded before the loop, a later item's is the
\* one taken from the future by the last await before the call (0: none)
PayloadSource(i) ==
    LET b == Pos("begin", i)
        taken == {n \in 1..b : log[n].ev = "await"}
    IN IF i = 1 THEN (IF Pos("encoded", 1) \in 1..b THEN 1 ELSE 0)
       ELSE IF taken = {} THEN 0
       ELSE log[CHOOSE n \in taken : \A m \in taken : m <= n].i

\* C32: the payload handed to the processing call of item i is the one made by
\* preparing item i; no payload goes to two items; an item is prepared once, and
\* in the background at most once.
C32_PayloadUsedOnceByItsItem ==
    /\ LET begin == PosAll("begin")
           source == <<>> \o [i \in 1..Len(images) |-> PayloadSource(i)]
       IN /\ \A i \in 1..Len(images) : begin[i] > 0 => source[i] = i
          /\ \A i \in 1..Len(images), j \in 1..Len(images) :
                (i # j /\ begin[i] > 0 /\ begin[j] > 0) => source[i] # source[j]
    /\ \A i \in 1..Len(images) :
          Times("encoded", i) <= 1 /\ Times("submit", i) <= 1 /\ Times("await", i) <= 1
    /\ pc \in {"call", "processing"} => current_encoded = encode_image_task(images[idx])

\* C32 witness: a run over three items has ended; the second and the third were
\* each prepared in the background once and processed with their own payload
C32_Witness ==
    /\ pc = "done" /\ Len(images) = 3
    /\ PayloadSource(2) = 2 /\ PayloadSource(3) = 3
    /\ Times("encoded", 2) = 1 /\ Times("encoded", 3) = 1

\* where item i is on its way: 0 Pending, 1 Preparing (submitted to the worker
\* thread), 2 Prepared, 3 Processing, 4 Done (its result is in the list)
ItemState(i) ==
    IF i <= Len(results) THEN 4
    ELSE IF Pos("begin", i) > 0 THEN 3
    ELSE IF Pos("encoded", i) > 0 THEN 2
    ELSE IF Pos("submit", i) > 0 THEN 1
    ELSE 0

\* C33: a run that is not killed and whose calls all return comes to its end
\* with a result, success or failure, for every item; and while it runs every
\* item only moves forward, a step at a time, through Pending, Preparing,
\* Prepared, Processing, Done.
C33_RunTerminates ==
    /\ (pc = "loop") ~> (pc = "done" /\ Len(results) = Len(images))
    /\ [][(runs' = runs /\ pc' # "killed") =>
             \A i \in 1..Len(images) :
                 ItemState(i)' = ItemState(i) \/ ItemState(i)' = ItemState(i) + 1]_vars

\* C33 witness: a run over three items has ended, the first item Done as a
\* failure and the third Done as a success
C33_Witness ==
    /\ pc = "done" /\ Len(images) = 3
    /\ \A i \in 1..3 : ItemState(i) = 4
    /\ ~results[1].success /\ results[3].success

\* main() has filtered its list for --resume and processed no item yet
JustResumed == args.resume /\ (pc = "exit" \/ (pc = "loop" /\ idx = 1))
\* the item's key has a processed record, made from the size and modification
\* time the item has now
RecordedUnchanged(p) ==
    /\ get_file_key(p) \in DOMAIN data.processed
    /\ data.processed[get_file_key(p)].at_mark = files[p]

C35_TotalTimeAccumulates ==
    [][(Len(results') = Len(results) + 1 /\ results'[Len(results')].success) =>
          data'.stats.total_time =
              data.stats.total_time + results'[Len(results')].inference_time]_vars

---------------------------------------------------------------------------
(* SpecSeq: the sequence pass, detect_sequences then score_sequence *)

\* the image lists of the model: all the shots in two orders, and a list in
\* which no two images share a filename
InputOrders ==
    {<< <<"a", "x">>, <<"a", "y">>, <<"b", "w">>, <<"b", "x">>, <<"b", "z">> >>,
     << <<"b", "z">>, <<"b", "x">>, <<"b", "w">>, <<"a", "y">>, <<"a", "x">> >>,
     << <<"b", "z">>, <<"a", "y">>, <<"a", "x">>, <<"b", "w">> >>}

InitSeq ==
    /\ files = [p \in Paths |-> Stat(1, 11)]
    /\ disk = FileOf("missing")
    /\ data = NoData
    /\ now = 0
    /\ pc = "none"
    /\ call = NoCall
    /\ peer = NoData
    /\ MainIdle
    /\ seq_images \in InputOrders
    /\ exif \in [Shots -> Instants \cup {NoExif}]
    /\ \A p \in Shots : (\A n \in 1..Len(seq_images) : seq_images[n] # p) => exif[p] = NoExif
    /\ threshold_seconds \in Thresholds
    /\ sequences = <<>>
    /\ stage = "input"
    /\ exiftool \in ExiftoolOutcomes

\* detector = SequenceDetector(): RuntimeError when exiftool is not installed;
\* sequences = detector.detect_sequences(images, threshold)
DetectSequences ==
    /\ stage = "input"
    /\ IF exiftool = "missing"
       THEN sequences' = <<>> /\ stage' = "raised"
       ELSE /\ sequences' = detect_sequences(seq_images, exif, threshold_seconds, exiftool)
            /\ stage' = "detected"
    /\ UNCHANGED <<files, storeVars, pc, mainVars, peer, exiftool, seq_images, exif, threshold_seconds>>

\* scorer.score_sequence(seq) for one of the detected sequences
ScoreSequence(k, px) ==
    /\ stage = "detected"
    /\ ~sequences[k].scored
    /\ ~sequences[k].writing.called
    /\ sequences' = [sequences EXCEPT ![k] = score_sequence(@, px)]
    /\ UNCHANGED <<files, storeVars, pc, mainVars, peer, exiftool, seq_images, exif, threshold_seconds,
                   stage>>

NextSeq ==
    \/ DetectSequences
    \/ \E k \in 1..Len(sequences) :
          \E px \in [1..Len(sequences[k].frames) -> PixelKinds] : ScoreSequence(k, px)

SpecSeq == InitSeq /\ [][NextSeq]_vars

\* SpecWrite: the sequence pass with its last step, write_sequence_metadata, on
\* a list of four images taken at two instants or carrying no capture time
WriteInstants == {datetime(22, 14, 35, 26, 0), datetime(22, 14, 35, 26, 100000)}

InitWrite ==
    /\ InitSeq
    /\ Len(seq_images) = 4
    /\ \A p \in Shots : exif[p] \in WriteInstants \cup {NoExif}
    /\ exiftool = "ok"

\* write_sequence_metadata(seq, output_dir, dry_run) for a detected sequence
WriteSequenceMetadata(k, dry_run, cannot_write) ==
    /\ stage = "detected"
    /\ ~sequences[k].writing.called
    /\ dry_run => cannot_write = {}
    /\ sequences' = [sequences EXCEPT ![k] = write_sequence_metadata(@, dry_run, cannot_write)]
    /\ UNCHANGED <<files, storeVars, pc, mainVars, peer, exiftool, seq_images, exif,
                   threshold_seconds, stage>>

NextWrite ==
    \/ DetectSequences
    \/ \E k \in 1..Len(sequences) :
          \E px \in [1..Len(sequences[k].frames) -> PixelKinds] : ScoreSequence(k, px)
    \/ \E k \in 1..Len(sequences), dry_run \in BOOLEAN :
          \E cannot_write \in SUBSET (1..Len(sequences[k].frames)) :
              WriteSequenceMetadata(k, dry_run, cannot_write)

SpecWrite == InitWrite /\ [][NextWrite]_vars

---------------------------------------------------------------------------
(* Properties of the sequence pass, checked under SpecSeq *)

\* the images of the input list for which exiftool gives a capture time
Timestamped == {p \in Shots : exiftool = "ok" /\ exif[p] # NoExif}
FramesOf(k) == {sequences[k].frames[n] : n \in 1..Len(sequences[k].frames)}
InSequence(p) == \E k \in 1..Len(sequences) : p \in FramesOf(k)
SameSequence(p, q) == \E k \in 1..Len(sequences) : p \in FramesOf(k) /\ q \in FramesOf(k)
\* p and q follow each other in ascending capture-time order
TimeAdjacent(p, q) ==
    /\ p # q
    /\ ~DtLess(exif[q], exif[p])
    /\ ~\E r \in Timestamped : DtLess(exif[p], exif[r]) /\ DtLess(exif[r], exif[q])
Near(p, q) ==
    IF DtLess(exif[q], exif[p])
    THEN WithinThreshold(Minus(exif[p], exif[q]), threshold_seconds)
    ELSE WithinThreshold(Minus(exif[q], exif[p]), threshold_seconds)
Scored(k) == sequences[k].scored

\* C11: two time-adjacent timestamped items are in the same sequence if their
\* gap is at most the threshold (a gap equal to it included) and are not in the
\* same sequence if their gap is greater.
C11_ThresholdRule ==
    stage = "detected" =>
        \A p \in Timestamped, q \in Timestamped :
            TimeAdjacent(p, q) => (SameSequence(p, q) <=> Near(p, q))

\* C12: every detected sequence has at least 2 frames, and an item with no
\* timestamped neighbour within the threshold is in no sequence.
C12_NoSingletons ==
    stage = "detected" =>
        /\ \A k \in 1..Len(sequences) : Len(sequences[k].frames) >= 2
        /\ \A p \in Timestamped :
              (~\E q \in Timestamped \ {p} : Near(p, q)) => ~InSequence(p)

\* C13: in every detected sequence frames and timestamps have the same length,
\* timestamps[i] is the capture time of frames[i], and the timestamps ascend,
\* in whatever order the images were given.
C13_FramesCoSorted ==
    \A k \in 1..Len(sequences) :
        LET s == sequences[k] IN
        /\ Len(s.frames) = Len(s.timestamps)
        /\ \A n \in 1..Len(s.frames) : s.timestamps[n] = exif[s.frames[n]]
        /\ \A n \in 1..(Len(s.timestamps) - 1) : ~DtLess(s.timestamps[n + 1], s.timestamps[n])

\* C14: the ids of two sequences whose first frames have different timestamps
\* sort, as plain text, in the order of the timestamps.
C14_IdOrderIsTimeOrder ==
    \A j \in 1..Len(sequences), k \in 1..Len(sequences) :
        DtLess(sequences[j].timestamps[1], sequences[k].timestamps[1])
            => StrLess(sequences[j].sequence_id, sequences[k].sequence_id)

\* C15: after score_sequence the best frame index is the smallest index whose
\* score is the maximum of the scores (index 0 when all scores are equal).
C15_FirstMaxWins ==
    \A k \in 1..Len(sequences) :
        Scored(k) =>
            LET s == sequences[k]
                b == s.best_frame_idx + 1
            IN /\ b \in 1..Len(s.sharpness_scores)
               /\ \A n \in 1..Len(s.sharpness_scores) :
                     /\ s.sharpness_scores[n] <= s.sharpness_scores[b]
                     /\ n < b => s.sharpness_scores[n] < s.sharpness_scores[b]

\* C15 witness: a scored sequence whose maximum is shared by the second and
\* third frame, the second being the best frame
C15_Witness ==
    \E k \in 1..Len(sequences) :
        /\ Scored(k) /\ Len(sequences[k].frames) >= 3
        /\ sequences[k].sharpness_scores[1] < sequences[k].sharpness_scores[2]
        /\ sequences[k].sharpness_scores[2] = sequences[k].sharpness_scores[3]
        /\ sequences[k].best_frame_idx = 1

\* C16: a frame scored 0.0 because it could not be read is never the best frame
\* of a sequence in which some frame was scored from its pixels.
C16_FallbackNeverBest ==
    \A k \in 1..Len(sequences) :
        (Scored(k) /\ \E n \in 0..(Len(sequences[k].frames) - 1) :
                         n \notin sequences[k].fallback)
            => sequences[k].best_frame_idx \notin sequences[k].fallback

\* the input list without the items exiftool gives no capture time for
TimedOnly(imgs) ==
    LET Timed(p) == p \in Timestamped IN SelectSeq(imgs, Timed)

\* the clustering of a list of sequences: ids, frames and timestamps
Clusters(seqs) ==
    [k \in 1..Len(seqs) |-> [sequence_id |-> seqs[k].sequence_id,
                             frames |-> seqs[k].frames,
                             timestamps |-> seqs[k].timestamps]]

\* C24: an item for which exiftool gives no capture time is in no detected
\* sequence, detection does not raise over it, and the sequences are those
\* detected over the list without it.
C24_UntimedItemsIgnored ==
    (stage # "input" /\ exiftool # "missing") =>
        /\ stage = "detected"
        /\ \A p \in Shots \ Timestamped : ~InSequence(p)
        /\ Clusters(sequences) =
             Clusters(detect_sequences(TimedOnly(seq_images), exif, threshold_seconds,
                                       exiftool))

\* C25: when exiftool is missing, or its run fails for the whole batch, the
\* sequence pass ends in an error raised before any clustering; it does not
\* return a list of sequences, empty or not.
C25_ReaderFailureIsFatal ==
    (stage # "input" /\ exiftool # "ok") => stage = "raised"

\* C27: the sequences of one detect_sequences result have pairwise different
\* ids, at every threshold, thresholds below one second included.
C27_IdsUnique ==
    \A j \in 1..Len(sequences), k \in 1..Len(sequences) :
        j # k => sequences[j].sequence_id # sequences[k].sequence_id

\* the last frame of the k-th sequence
LastFrame(k) == sequences[k].frames[Len(sequences[k].frames)]

\* C28: the detected sequences are disjoint, maximal runs: a timestamped item is
\* a frame of at most one sequence, and there once; the sequences come in
\* ascending capture-time order; and every timestamped item that is not in a
\* sequence and is not earlier than its last frame is more than the threshold
\* after that frame.
C28_MaximalDisjointRuns ==
    stage = "detected" =>
        /\ \A p \in Timestamped :
              Cardinality({<<k, n>> \in (1..Len(sequences)) \X (1..Cardinality(Shots)) :
                              n <= Len(sequences[k].frames) /\ sequences[k].frames[n] = p}) <= 1
        /\ \A j \in 1..Len(sequences), k \in 1..Len(sequences) :
              j < k => ~DtLess(exif[sequences[k].frames[1]], exif[LastFrame(j)])
        /\ \A k \in 1..Len(sequences) : \A q \in Timestamped \ FramesOf(k) :
              ~DtLess(exif[q], exif[LastFrame(k)]) => ~Near(LastFrame(k), q)

\* the position of an image in the input list
InputPos(p) == CHOOSE n \in 1..Len(seq_images) : seq_images[n] = p

\* C29: frames of a sequence that carry equal capture times stand in the order
\* they have in the input list.
C29_TiesInInputOrder ==
    \A k \in 1..Len(sequences) :
        LET s == sequences[k] IN
        \A m \in 1..Len(s.frames), n \in 1..Len(s.frames) :
            (m < n /\ s.timestamps[m] = s.timestamps[n])
                => InputPos(s.frames[m]) < InputPos(s.frames[n])

\* C30: after score_sequence a sequence has one sharpness score per frame, an
\* unreadable frame counting 0.0 and the frames after it being scored all the
\* same, and its best frame index is an index into its frames; the best frame
\* index of a detected sequence is an index into its frames before any scoring
\* too.
C30_ScoresAndBestIndexValid ==
    \A k \in 1..Len(sequences) :
        LET s == sequences[k] IN
        /\ s.best_frame_idx \in 0..(Len(s.frames) - 1)
        /\ Scored(k) =>
              /\ Len(s.sharpness_scores) = Len(s.frames)
              /\ \A n \in s.fallback : s.sharpness_scores[n + 1] = 0

\* C30 witness: a scored sequence of three frames or more whose second frame was
\* unreadable and whose third frame, scored from its pixels, is the best frame
C30_Witness ==
    \E k \in 1..Len(sequences) :
        /\ Scored(k) /\ Len(sequences[k].frames) >= 3
        /\ 1 \in sequences[k].fallback
        /\ sequences[k].sharpness_scores[2] = 0
        /\ sequences[k].sharpness_scores[3] > 0
        /\ sequences[k].best_frame_idx = 2

\* C31: score_sequence changes the sharpness scores and the best frame index of
\* the sequence it is given and nothing else: the ids, frames and timestamps of
\* all sequences stay as they are, and every other sequence stays as it is.
C31_ScoreTouchesScoresOnly ==
    [][(stage = "detected" /\ stage' = "detected") =>
          /\ Clusters(sequences') = Clusters(sequences)
          /\ Cardinality({k \in 1..Len(sequences) : sequences'[k] # sequences[k]}) <= 1]_vars

\* C31 witness: of two detected sequences the second has been scored, its best
\* frame being its second, and the first has not been touched
C31_Witness ==
    /\ Len(sequences) = 2
    /\ Scored(2) /\ sequences[2].best_frame_idx = 1
    /\ ~Scored(1) /\ sequences[1].sharpness_scores = <<>>

\* C37: the mapping read_timestamps_batch returns holds every image whose
\* exiftool row carries a capture time, with that time, also when two images in
\* different directories have the same filename.
C37_RowsGoToTheirItems ==
    (stage = "detected" /\ exiftool = "ok") =>
        LET timestamps == read_timestamps_batch(seq_images, exif, exiftool) IN
        \A n \in 1..Len(seq_images) :
            exif[seq_images[n]] # NoExif =>
                \E m \in 1..Len(timestamps) :
                    /\ timestamps[m].img = seq_images[n]
                    /\ timestamps[m].ts = exif[seq_images[n]]

\* C38: write_sequence_metadata hands write_xmp_keywords, for every frame of the
\* sequence, the keyword Sequence:<sequence_id>, and Sequence:Best for exactly
\* one frame, the one at best_frame_idx; it returns false exactly when the write
\* of some frame failed, the frames after that one being written all the same;
\* with dry_run it writes nothing and returns true.
C38_SequenceKeywords ==
    \A k \in 1..Len(sequences) :
        LET s == sequences[k]
            w == s.writing
        IN w.called =>
            IF w.dry_run THEN w.ret /\ w.frames = <<>>
            ELSE /\ DOMAIN w.frames = 1..Len(s.frames)
                 /\ \A n \in 1..Len(s.frames) :
                        /\ SeqKeyword(s) \in w.frames[n].keywords
                        /\ Best \in w.frames[n].keywords <=> n - 1 = s.best_frame_idx
                 /\ Cardinality({n \in 1..Len(s.frames) : Best \in w.frames[n].keywords}) = 1
                 /\ w.ret <=> \A n \in 1..Len(s.frames) : w.frames[n].ok

\* C38 witness: a scored sequence of three frames whose third frame is the best;
\* the write of the first frame failed, false was returned, and the second and
\* third frame got their keywords, the third with Sequence:Best
C38_Witness ==
    \E k \in 1..Len(sequences) :
        LET s == sequences[k]
            w == s.writing
        IN /\ w.called /\ ~w.dry_run /\ ~w.ret
           /\ Len(s.frames) >= 3 /\ s.scored /\ s.best_frame_idx = 2
           /\ ~w.frames[1].ok /\ w.frames[2].ok /\ w.frames[3].ok
           /\ w.frames[2].keywords = {SeqKeyword(s)}
           /\ w.frames[3].keywords = {SeqKeyword(s), Best}

====
